---- MODULE Spec2Model ----
(***************************************************************************)
(* Word-frequency counters of Parallel-Grepper: the OpenMP counter         *)
(* (WordCounterParallel), the sequential baseline (WordCounterSequential)  *)
(* and the two driver programs.  One caller thread (mpc) calls the         *)
(* operations; inside buildWordMapFromList a team of OpenMP threads        *)
(* (wpc) runs the work-shared loop, the barrier and the critical merge.    *)
(***************************************************************************)
EXTENDS Integers, Sequences, FiniteSets, TLC

(* ------------------------------ bounds -------------------------------- *)
\* longest input text, in characters
MaxTextLen == 3
\* largest OpenMP team
MaxWorkers == 2

(* ---------------------------- characters ------------------------------ *)
\* characters the input texts are drawn from: a lowercase letter, an
\* uppercase letter, a digit and a blank
TextChars == {"a", "B", "1", " "}

LowerChars == {"a", "b"}
UpperChars == {"A", "B"}

isspace(c) == c = " "

isalpha(c) == c \in LowerChars \cup UpperChars

\* the character is kept as it is
tolowerKeepsCase(c) == c

tolower(c) == IF c = "A" THEN "a" ELSE IF c = "B" THEN "b" ELSE c

RECURSIVE SeqsUpTo(_, _)
SeqsUpTo(S, n) ==
    IF n = 0 THEN {<<>>}
    ELSE LET shorter == SeqsUpTo(S, n - 1)
         IN  shorter \cup {Append(s, c) : s \in shorter, c \in S}

Texts == SeqsUpTo(TextChars, MaxTextLen)

(* ------------------------- frequency maps ----------------------------- *)
EmptyMap == <<>>

\* m[k] = 1
IncrementAssigns(m, k) ==
    IF k \in DOMAIN m THEN [m EXCEPT ![k] = 1] ELSE m @@ (k :> 1)

\* m[k]++ on an unordered_map: a missing key is value-initialised to 0
Increment(m, k) ==
    IF k \in DOMAIN m THEN [m EXCEPT ![k] = @ + 1] ELSE m @@ (k :> 1)

\* m[k] = n
AddToAssigns(m, k, n) ==
    IF k \in DOMAIN m THEN [m EXCEPT ![k] = n] ELSE m @@ (k :> n)

\* m[k] += n
AddTo(m, k, n) ==
    IF k \in DOMAIN m THEN [m EXCEPT ![k] = @ + n] ELSE m @@ (k :> n)

RECURSIVE SumOver(_, _)
SumOver(m, keys) ==
    IF keys = {} THEN 0
    ELSE LET k == CHOOSE x \in keys : TRUE
         IN  m[k] + SumOver(m, keys \ {k})

SumCounts(m) == SumOver(m, DOMAIN m)

\* std::unordered_map::empty
MapEmptyNever(m) == FALSE

MapEmpty(m) == DOMAIN m = {}

\* std::string::empty
StringEmptyNever(str) == FALSE

StringEmpty(str) == Len(str) = 0

(* ------------------------ tokenizer, normalizer ----------------------- *)
\* while (stream >> word) rawWords.push_back(word): maximal runs of
\* non-blank characters, in order
RECURSIVE ExtractWords(_, _, _)
ExtractWords(s, word, acc) ==
    IF s = <<>> THEN (IF word = <<>> THEN acc ELSE Append(acc, word))
    ELSE IF isspace(Head(s))
         THEN ExtractWords(Tail(s), <<>>,
                           IF word = <<>> THEN acc ELSE Append(acc, word))
         ELSE ExtractWords(Tail(s), Append(word, Head(s)), acc)

ReadWords(s) == ExtractWords(s, <<>>, <<>>)

\* WordCounterParallel::normalizeWord
RECURSIVE normalizeWord(_)
normalizeWord(word) ==
    IF word = <<>> THEN <<>>
    ELSE IF isalpha(Head(word))
         THEN <<tolower(Head(word))>> \o normalizeWord(Tail(word))
         ELSE normalizeWord(Tail(word))

\* WordCounterSequential::normalizeWord
RECURSIVE seqNormalizeWord(_)
seqNormalizeWord(word) ==
    IF word = <<>> THEN <<>>
    ELSE IF isalpha(Head(word))
         THEN <<tolower(Head(word))>> \o seqNormalizeWord(Tail(word))
         ELSE seqNormalizeWord(Tail(word))

(* --------------------------- integer casts ---------------------------- *)
IntMax == 2147483647

\* static_cast<int>(size_t) on a size that fits a TLC integer: wraps modulo
\* 2^32 into [-2^31, 2^31)
StaticCastInt(n) == IF n <= IntMax THEN n ELSE n - IntMax - IntMax - 2

\* A size_t has 64 bits, more than a TLC integer holds: a size is written
\* in three parts, high * 2^32 + mid * 2^16 + low.
Half == 2 ^ 16

\* static_cast<int>(size_t) on a size in three parts: the low 32 bits, read
\* as two's complement
StaticCastSize(size) ==
    IF size.mid < Half \div 2
    THEN size.mid * Half + size.low
    ELSE (size.mid - Half) * Half + size.low

\* the number of iterations of for (int i = 0; i < bound; ++i)
TripCount(bound) == IF bound > 0 THEN bound ELSE 0

(* ------------------------------ state --------------------------------- *)
VARIABLES
    prog,           \* the caller: a client of the classes, or one of the mains
    text,           \* content of the file "input"; also the countWords argument
    syncMethod,     \* WordCounterParallel fields
    executionTime,
    totalWords,
    uniqueWords,
    numThreads,     \* omp_set_num_threads value, 0 when never set
    rawWords,       \* buildWordMapFromList: parameter and locals
    wordFreq,
    totalWordCount,
    team,           \* number of threads of the running parallel region, 0 if none
    chunk,          \* chunk[w] = <<first, end>>: the static chunk of thread w
    idx,            \* idx[w]: loop variable i of thread w
    localMap,       \* localMap[w]
    privTotal,      \* the reduction's private copy of totalWordCount of thread w
    todo,           \* keys of localMap[w] the merge loop has not visited yet
    wpc,            \* position of thread w inside the parallel region
    critical,       \* owner of the unnamed critical lock, 0 when free
    mpc,            \* position of the caller
    cur,            \* the call in progress, or the last one completed
    ret,            \* the map the last call returned to the caller
    last,           \* the call completed before cur on the same object
    ref,            \* the first result buildWordMapFromList produced for text
    seqExecutionTime,   \* WordCounterSequential fields
    seqTotalWords,
    seqUniqueWords,
    seqCur,         \* the last call made on the sequential counter
    seqRet,         \* the map the last sequential call returned
    argv,           \* main: argv[1..argc-1]
    inputFile,      \* main: locals
    outputFile,
    topN,
    exitCode,       \* Running, or the exit status of main
    console,        \* main: the messages written to cout / cerr
    outFile,        \* the output file: its path and report, or NoFile
    topArg,         \* getTopWords: the arguments of the call
    topWords,       \* getTopWords: the sequence returned
    token,          \* normalizeWord: the argument of the calls
    parNormalized,  \* what WordCounterParallel::normalizeWord returned
    seqNormalized,  \* what WordCounterSequential::normalizeWord returned
    listSize,       \* rawWords.size(), a 64-bit size_t in three parts
    loopBound,      \* static_cast<int>(rawWords.size()), the loop's bound
    tripCount       \* the number of iterations of the loop

envVars == <<prog, text>>

counterVars == <<syncMethod, executionTime, totalWords, uniqueWords>>

regionVars == <<team, chunk, idx, localMap, privTotal, todo, wpc, critical>>

buildVars == <<rawWords, wordFreq, totalWordCount, regionVars>>

histVars == <<last, ref>>

seqVars == <<seqExecutionTime, seqTotalWords, seqUniqueWords, seqCur, seqRet>>

mainVars == <<argv, inputFile, outputFile, topN, exitCode, console>>

topVars == <<topArg, topWords>>

normVars == <<token, parNormalized, seqNormalized>>

castVars == <<listSize, loopBound, tripCount>>

vars == <<envVars, normVars, castVars,
          counterVars, numThreads, buildVars, mpc, cur, ret,
          histVars,
          seqVars, mainVars, outFile, topVars>>

SyncMethods == {"Critical", "Atomic", "Reduction"}

Mains == {"par_main", "seq_main"}

InPaths == {"input", "missing"}

\* std::ifstream(filename).is_open()
CanOpen(filename) == filename = "input"

OutPaths == {"out", "nodir/out"}

\* std::ofstream(filename).is_open()
CanCreate(filename) == filename # "nodir/out"

\* a measured duration: 0, or some positive number of milliseconds
Durations == {0, 1}

Workers == 1 .. team

\* main has not returned
Running == 0 - 1

\* an exception nobody catches ends in std::terminate: abort(), SIGABRT
Aborted == 128 + 6

NoCall == [op |-> "none", arg |-> "none"]

NoResult == [op |-> "none", arg |-> "none", map |-> <<>>, total |-> 0]

NoRef == [mode |-> "none", map |-> <<>>, total |-> 0]

NoFile == [path |-> "none"]

NoTop == [map |-> <<>>, n |-> 0]

\* normalizeWord has not been called
NotCalled == <<"not called">>

\* where the caller continues after a counting call
ReturnPoint == IF prog \in Mains THEN "main_check" ELSE "idle"

\* cout / cerr are recorded for the main programs
Log(messages) == IF prog \in Mains THEN console \o messages ELSE console

(* -------------------- schedule(static) work sharing ------------------- *)
\* schedule(static) without a chunk size gives every thread at most one
\* chunk of consecutive iterations; OpenMP leaves the sizes to the runtime
\* and names two compliant ways to choose them.

\* every chunk one iteration too long
OverlongChunk(n, w, t) ==
    LET q == n \div w
        r == n % w
        first == t * q + (IF t < r THEN t ELSE r)
        end == first + q + (IF t < r THEN 1 ELSE 0)
    IN  <<first, IF end < n THEN end + 1 ELSE n>>

\* the chunk of thread t (0-based) of n iterations over w threads when the
\* runtime hands out floor(n/w) iterations and one more to the first n%w
BalancedChunk(n, w, t) ==
    LET q == n \div w
        r == n % w
        first == t * q + (IF t < r THEN t ELSE r)
    IN  <<first, first + q + (IF t < r THEN 1 ELSE 0)>>

\* the chunk of thread t when the runtime behaves as if the chunk size
\* ceil(n/w) had been given: the last threads get what is left
GreedyChunk(n, w, t) ==
    LET q == (n + w - 1) \div w
        first == IF t * q < n THEN t * q ELSE n
    IN  <<first, IF first + q < n THEN first + q ELSE n>>

StaticSchedule(n, w) == [t \in 1 .. w |-> BalancedChunk(n, w, t - 1)]

GreedySchedule(n, w) == [t \in 1 .. w |-> GreedyChunk(n, w, t - 1)]

\* the ways the runtime can share out n iterations over w threads
StaticSchedules(n, w) == {StaticSchedule(n, w), GreedySchedule(n, w)}

\* the sizes a team can have: the value given to omp_set_num_threads, or
\* what the runtime picks
TeamSizes == IF numThreads > 0 THEN {numThreads} ELSE 1 .. MaxWorkers

(* --------------------------- initial values --------------------------- *)
\* WordCounterParallel::WordCounterParallel(mode), lines 11-12
Constructed(mode) ==
    /\ syncMethod = mode
    /\ executionTime = 0
    /\ totalWords = 0
    /\ uniqueWords = 0

\* WordCounterSequential::WordCounterSequential(), lines 9-11
SeqConstructed ==
    /\ seqExecutionTime = 0
    /\ seqTotalWords = 0
    /\ seqUniqueWords = 0

NoRegion ==
    /\ team = 0
    /\ chunk = <<>>
    /\ idx = <<>>
    /\ localMap = <<>>
    /\ privTotal = <<>>
    /\ todo = <<>>
    /\ wpc = <<>>
    /\ critical = 0

NoBuild ==
    /\ rawWords = <<>>
    /\ wordFreq = EmptyMap
    /\ totalWordCount = 0
    /\ NoRegion

NoMain ==
    /\ argv = <<>>
    /\ inputFile = ""
    /\ outputFile = ""
    /\ topN = 0
    /\ exitCode = Running
    /\ console = <<>>

NoToken ==
    /\ token = <<>>
    /\ parNormalized = NotCalled
    /\ seqNormalized = NotCalled

NoCast ==
    /\ listSize = [high |-> 0, mid |-> 0, low |-> 0]
    /\ loopBound = 0
    /\ tripCount = 0

Quiet ==
    /\ NoBuild
    /\ NoToken
    /\ NoCast
    /\ cur = NoCall
    /\ ret = EmptyMap
    /\ last = NoResult
    /\ ref = NoRef
    /\ seqCur = NoCall
    /\ seqRet = EmptyMap
    /\ outFile = NoFile
    /\ topArg = NoTop
    /\ topWords = <<>>

(* ------------------- WordCounterParallel: the calls ------------------- *)
\* what the calls of WordCounterParallel leave alone
parFrame == <<envVars, normVars, castVars, numThreads, seqVars, argv, inputFile,
              outputFile, topN, exitCode, outFile, topVars>>

\* countWords, lines 33-47: split the text, enter buildWordMapFromList
countWords(str) ==
    /\ cur' = [op |-> "countWords", arg |-> "text"]
    /\ rawWords' = ReadWords(str)
    /\ mpc' = "build"
    /\ UNCHANGED <<counterVars, wordFreq, totalWordCount, regionVars, ret,
                   console, parFrame>>

\* countWordsFromFile without line 62
countWordsFromFileKeepsTime(filename) ==
    /\ cur' = [op |-> "countWordsFromFile", arg |-> filename]
    /\ IF ~CanOpen(filename)
       THEN /\ console' = Log(<<"Error: Cannot open file">>)
            /\ ret' = EmptyMap
            /\ mpc' = ReturnPoint
            /\ UNCHANGED <<rawWords, counterVars>>
       ELSE /\ rawWords' = ReadWords(text)
            /\ mpc' = "build"
            /\ UNCHANGED <<counterVars, ret, console>>
    /\ UNCHANGED <<wordFreq, totalWordCount, regionVars, parFrame>>

\* countWordsFromFile, lines 57-77: the open fails and the call returns, or
\* the file is split and buildWordMapFromList entered
countWordsFromFile(filename) ==
    /\ cur' = [op |-> "countWordsFromFile", arg |-> filename]
    /\ IF ~CanOpen(filename)
       THEN /\ console' = Log(<<"Error: Cannot open file">>)
            /\ executionTime' = 0
            /\ ret' = EmptyMap
            /\ mpc' = ReturnPoint
            /\ UNCHANGED <<rawWords, syncMethod, totalWords, uniqueWords>>
       ELSE /\ rawWords' = ReadWords(text)
            /\ mpc' = "build"
            /\ UNCHANGED <<counterVars, ret, console>>
    /\ UNCHANGED <<wordFreq, totalWordCount, regionVars, parFrame>>

(* --------------------- buildWordMapFromList --------------------------- *)
\* the running total carried over from the call before
FreshTotalCarried == totalWords

\* line 142: unsigned long long totalWordCount = 0
FreshTotal == 0

\* lines 135-146 / 169-171: reset, return early on an empty list, else fork
\* the team; every thread starts with an empty localMap, the reduction's
\* private copies start at 0, and the loop is shared out statically
buildWordMapFromList ==
    /\ mpc = "build"
    /\ wordFreq' = EmptyMap
    /\ totalWords' = 0
    /\ IF Len(rawWords) = 0
       THEN /\ mpc' = "built"
            /\ UNCHANGED <<totalWordCount, regionVars>>
       ELSE /\ totalWordCount' = FreshTotal
            /\ \E n \in TeamSizes :
                /\ team' = n
                /\ chunk' \in StaticSchedules(StaticCastInt(Len(rawWords)), n)
                /\ idx' = [w \in 1 .. n |-> chunk'[w][1]]
                /\ localMap' = [w \in 1 .. n |-> EmptyMap]
                /\ privTotal' = [w \in 1 .. n |-> 0]
                /\ todo' = [w \in 1 .. n |-> {}]
                /\ wpc' = [w \in 1 .. n |-> "for"]
            /\ critical' = 0
            /\ mpc' = "region"
    /\ UNCHANGED <<syncMethod, executionTime, uniqueWords, rawWords, cur, ret,
                   console, parFrame>>

\* what a thread of the team leaves alone
workerFrame == <<counterVars, rawWords, team, chunk, mpc, cur, ret, console,
                 parFrame>>

\* the loop without the reduction clause: every strategy but the critical
\* one adds to the shared total
LoopIterationSharedTotal(w) ==
    /\ wpc[w] = "for"
    /\ idx[w] < chunk[w][2]
    /\ LET normalized == normalizeWord(rawWords[idx[w] + 1])
       IN  IF StringEmpty(normalized)
           THEN /\ idx' = [idx EXCEPT ![w] = @ + 1]
                /\ UNCHANGED <<localMap, totalWordCount, wpc>>
           ELSE /\ localMap' = [localMap EXCEPT ![w] = Increment(@, normalized)]
                /\ IF syncMethod = "Critical"
                   THEN /\ wpc' = [wpc EXCEPT ![w] = "critical_wait"]
                        /\ UNCHANGED <<totalWordCount, idx>>
                   ELSE /\ totalWordCount' = totalWordCount + 1
                        /\ idx' = [idx EXCEPT ![w] = @ + 1]
                        /\ UNCHANGED wpc
    /\ UNCHANGED <<privTotal, wordFreq, todo, critical, workerFrame>>

\* one iteration of the work-shared loop, lines 150-157 / 174-186
LoopIteration(w) ==
    /\ wpc[w] = "for"
    /\ idx[w] < chunk[w][2]
    /\ LET normalized == normalizeWord(rawWords[idx[w] + 1])
       IN  IF StringEmpty(normalized)
           THEN /\ idx' = [idx EXCEPT ![w] = @ + 1]
                /\ UNCHANGED <<localMap, privTotal, totalWordCount, wpc>>
           ELSE /\ localMap' = [localMap EXCEPT ![w] = Increment(@, normalized)]
                /\ CASE syncMethod = "Reduction" ->
                          /\ privTotal' = [privTotal EXCEPT ![w] = @ + 1]
                          /\ idx' = [idx EXCEPT ![w] = @ + 1]
                          /\ UNCHANGED <<totalWordCount, wpc>>
                     [] syncMethod = "Atomic" ->
                          /\ totalWordCount' = totalWordCount + 1
                          /\ idx' = [idx EXCEPT ![w] = @ + 1]
                          /\ UNCHANGED <<privTotal, wpc>>
                     [] syncMethod = "Critical" ->
                          /\ wpc' = [wpc EXCEPT ![w] = "critical_wait"]
                          /\ UNCHANGED <<privTotal, totalWordCount, idx>>
    /\ UNCHANGED <<wordFreq, todo, critical, workerFrame>>

\* the lock is never found taken
LockAlwaysFree == TRUE

\* no thread is inside an unnamed critical region
LockFree == critical = 0

\* #pragma omp critical of line 182: wait for the lock
CriticalEnter(w) ==
    /\ wpc[w] = "critical_wait"
    /\ LockFree
    /\ critical' = w
    /\ wpc' = [wpc EXCEPT ![w] = "critical_in"]
    /\ UNCHANGED <<wordFreq, totalWordCount, idx, localMap, privTotal, todo,
                   workerFrame>>

\* line 183 inside the lock, then the release and the next iteration
CriticalIncrement(w) ==
    /\ wpc[w] = "critical_in"
    /\ totalWordCount' = totalWordCount + 1
    /\ critical' = 0
    /\ idx' = [idx EXCEPT ![w] = @ + 1]
    /\ wpc' = [wpc EXCEPT ![w] = "for"]
    /\ UNCHANGED <<wordFreq, localMap, privTotal, todo, workerFrame>>

\* the loop condition fails: the thread waits at the implicit barrier that
\* ends the work-shared loop
LoopEnd(w) ==
    /\ wpc[w] = "for"
    /\ idx[w] >= chunk[w][2]
    /\ wpc' = [wpc EXCEPT ![w] = "barrier"]
    /\ UNCHANGED <<wordFreq, totalWordCount, idx, localMap, privTotal, todo,
                   critical, workerFrame>>

\* a thread counts as arrived only while it still waits at the barrier
AtBarrierOnly(w) == wpc[w] = "barrier"

\* the loop ends without a barrier, as with nowait
ArrivedAlways(w) == TRUE

AtOrPastBarrier(w) == wpc[w] \in {"barrier", "merge_wait", "merging", "end"}

\* the barrier opens once every thread of the team has reached it
BarrierLeave(w) ==
    /\ wpc[w] = "barrier"
    /\ \A v \in Workers : AtOrPastBarrier(v)
    /\ wpc' = [wpc EXCEPT ![w] = "merge_wait"]
    /\ UNCHANGED <<wordFreq, totalWordCount, idx, localMap, privTotal, todo,
                   critical, workerFrame>>

\* #pragma omp critical of lines 159 / 188: wait for the lock, start the
\* iteration over localMap
MergeEnter(w) ==
    /\ wpc[w] = "merge_wait"
    /\ LockFree
    /\ critical' = w
    /\ todo' = [todo EXCEPT ![w] = DOMAIN localMap[w]]
    /\ wpc' = [wpc EXCEPT ![w] = "merging"]
    /\ UNCHANGED <<wordFreq, totalWordCount, idx, localMap, privTotal,
                   workerFrame>>

\* one entry of the merge loop, lines 163 / 191; an unordered_map is visited
\* in an unspecified order
MergeEntry(w) ==
    /\ wpc[w] = "merging"
    /\ \E k \in todo[w] :
        /\ wordFreq' = AddTo(wordFreq, k, localMap[w][k])
        /\ todo' = [todo EXCEPT ![w] = @ \ {k}]
    /\ UNCHANGED <<totalWordCount, idx, localMap, privTotal, wpc, critical,
                   workerFrame>>

\* when the private copy of thread w is added to the original variable:
\* OpenMP says at the end of the region, so either by the thread itself
\* when it gets there (TRUE) or together with the others after the join
CombineTimes == IF syncMethod = "Reduction" THEN BOOLEAN ELSE {FALSE}

\* the merge loop is over: leave the critical region and wait at the
\* barrier that ends the parallel region
MergeExit(w) ==
    /\ wpc[w] = "merging"
    /\ todo[w] = {}
    /\ critical' = 0
    /\ wpc' = [wpc EXCEPT ![w] = "end"]
    /\ \E early \in CombineTimes :
          IF early
          THEN /\ totalWordCount' = totalWordCount + privTotal[w]
               /\ privTotal' = [privTotal EXCEPT ![w] = 0]
          ELSE UNCHANGED <<totalWordCount, privTotal>>
    /\ UNCHANGED <<wordFreq, idx, localMap, todo, workerFrame>>

RECURSIVE SumPrivate(_, _)
SumPrivate(priv, n) == IF n = 0 THEN 0 ELSE priv[n] + SumPrivate(priv, n - 1)

\* the private copies are dropped
ReducedDropsPrivate == totalWordCount

\* the value of totalWordCount after the region: reduction(+) adds the
\* private copies not yet combined to the original variable
Reduced ==
    IF syncMethod = "Reduction"
    THEN totalWordCount + SumPrivate(privTotal, team)
    ELSE totalWordCount

\* the parallel region ends when all its threads have reached its end
\* (lines 166 / 194); lines 198-200 then run on the calling thread alone
RegionEnd ==
    /\ mpc = "region"
    /\ \A w \in Workers : wpc[w] = "end"
    /\ totalWordCount' = Reduced
    /\ totalWords' = Reduced
    /\ team' = 0
    /\ chunk' = <<>>
    /\ idx' = <<>>
    /\ localMap' = <<>>
    /\ privTotal' = <<>>
    /\ todo' = <<>>
    /\ wpc' = <<>>
    /\ mpc' = "built"
    /\ UNCHANGED <<syncMethod, executionTime, uniqueWords, rawWords, wordFreq,
                   critical, cur, ret, console, parFrame>>

\* back in countWords / countWordsFromFile, lines 47-53 / 77-85
CallReturn ==
    /\ mpc = "built"
    /\ ret' = wordFreq
    /\ uniqueWords' = Cardinality(DOMAIN wordFreq)
    /\ \E elapsed \in Durations : executionTime' = elapsed
    /\ rawWords' = <<>>
    /\ wordFreq' = EmptyMap
    /\ totalWordCount' = 0
    /\ mpc' = ReturnPoint
    /\ UNCHANGED <<syncMethod, totalWords, regionVars, cur, console, parFrame>>

Worker(w) ==
    \/ LoopIteration(w)
    \/ CriticalEnter(w)
    \/ CriticalIncrement(w)
    \/ LoopEnd(w)
    \/ BarrierLeave(w)
    \/ MergeEnter(w)
    \/ MergeEntry(w)
    \/ MergeExit(w)

\* the steps from the entry of buildWordMapFromList to its return
Building ==
    \/ buildWordMapFromList
    \/ \E w \in Workers : Worker(w)
    \/ RegionEnd

(* ----------------------------- getTopWords ---------------------------- *)
\* the vector built from the map's (word, count) pairs
Entries(m) == {<<k, m[k]>> : k \in DOMAIN m}

\* the comparator turned around
LessFrequent(a, b) == a[2] < b[2]

\* the comparator given to std::sort, lines 94 / 99-101
MoreFrequent(a, b) == a[2] > b[2]

\* every arrangement of the pairs of E in a vector
Arrangements(E) ==
    {s \in [1 .. Cardinality(E) -> E] :
        \A i, j \in 1 .. Cardinality(E) : s[i] = s[j] => i = j}

\* the vectors std::sort can leave: no element is ordered before one that
\* precedes it; pairs the comparator does not order end in either order
SortOutcomes(E) ==
    {s \in Arrangements(E) :
        \A i, j \in 1 .. Len(s) : i < j => ~MoreFrequent(s[j], s[i])}

\* the resize of lines 96-98 / 105-107
Truncate(wordVec, n) ==
    IF n > 0 /\ n < StaticCastInt(Len(wordVec))
    THEN SubSeq(wordVec, 1, n)
    ELSE wordVec

\* WordCounterParallel::getTopWords: the vectors it can return
getTopWords(wordMap, n) == {Truncate(s, n) : s \in SortOutcomes(Entries(wordMap))}

\* WordCounterSequential::getTopWords: the vectors it can return
seqGetTopWords(wordMap, n) ==
    {Truncate(s, n) : s \in SortOutcomes(Entries(wordMap))}

(* ----------------------------- saveResults ---------------------------- *)
\* saveResults that zeroes the elapsed time when the open fails
saveResultsClearsTime(wordMap, filename, n) ==
    /\ IF ~CanCreate(filename)
       THEN /\ console' = Log(<<"Error: Cannot create output file">>)
            /\ executionTime' = 0
            /\ UNCHANGED outFile
       ELSE /\ \E sortedWords \in getTopWords(wordMap, n) :
                outFile' = [path |-> filename,
                            total |-> totalWords,
                            unique |-> uniqueWords,
                            time |-> executionTime,
                            rows |-> sortedWords]
            /\ console' = Log(<<"Results saved to">>)
            /\ UNCHANGED executionTime
    /\ UNCHANGED <<syncMethod, totalWords, uniqueWords, seqVars>>

\* WordCounterParallel::saveResults, lines 104-130
saveResults(wordMap, filename, n) ==
    /\ IF ~CanCreate(filename)
       THEN /\ console' = Log(<<"Error: Cannot create output file">>)
            /\ UNCHANGED outFile
       ELSE /\ \E sortedWords \in getTopWords(wordMap, n) :
                outFile' = [path |-> filename,
                            total |-> totalWords,
                            unique |-> uniqueWords,
                            time |-> executionTime,
                            rows |-> sortedWords]
            /\ console' = Log(<<"Results saved to">>)
    /\ UNCHANGED <<counterVars, seqVars>>

\* WordCounterSequential::saveResults, lines 115-143
seqSaveResults(wordMap, filename, n) ==
    /\ IF ~CanCreate(filename)
       THEN /\ console' = Log(<<"Error: Cannot create output file">>)
            /\ UNCHANGED outFile
       ELSE /\ \E sortedWords \in seqGetTopWords(wordMap, n) :
                outFile' = [path |-> filename,
                            total |-> seqTotalWords,
                            unique |-> seqUniqueWords,
                            time |-> seqExecutionTime,
                            rows |-> sortedWords]
            /\ console' = Log(<<"Results saved to">>)
    /\ UNCHANGED <<counterVars, seqVars>>

(* ------------------ WordCounterSequential: the calls ------------------ *)
\* the loop of lines 40-47 / 72-79 over the words read so far
RECURSIVE SeqLoop(_, _, _)
SeqLoop(words, freq, total) ==
    IF words = <<>> THEN [map |-> freq, total |-> total]
    ELSE LET normalized == seqNormalizeWord(Head(words))
         IN  IF StringEmpty(normalized)
             THEN SeqLoop(Tail(words), freq, total)
             ELSE SeqLoop(Tail(words), Increment(freq, normalized), total + 1)

\* what the calls of WordCounterSequential leave alone
seqFrame == <<envVars, normVars, castVars,
              counterVars, numThreads, buildVars, cur, ret,
              argv,
              inputFile, outputFile, topN, exitCode, outFile, topVars>>

\* WordCounterSequential::countWords, lines 32-54
seqCountWords(str) ==
    /\ seqCur' = [op |-> "countWords", arg |-> "text"]
    /\ LET counted == SeqLoop(ReadWords(str), EmptyMap, 0)
       IN  /\ seqTotalWords' = counted.total
           /\ seqUniqueWords' = Cardinality(DOMAIN counted.map)
           /\ seqRet' = counted.map
    /\ \E elapsed \in Durations : seqExecutionTime' = elapsed
    /\ mpc' = ReturnPoint
    /\ UNCHANGED <<console, seqFrame>>

\* WordCounterSequential::countWordsFromFile, lines 58-87
seqCountWordsFromFile(filename) ==
    /\ seqCur' = [op |-> "countWordsFromFile", arg |-> filename]
    /\ IF ~CanOpen(filename)
       THEN /\ console' = Log(<<"Error: Cannot open file">>)
            /\ seqExecutionTime' = 0
            /\ seqRet' = EmptyMap
            /\ UNCHANGED <<seqTotalWords, seqUniqueWords>>
       ELSE /\ LET counted == SeqLoop(ReadWords(text), EmptyMap, 0)
               IN  /\ seqTotalWords' = counted.total
                   /\ seqUniqueWords' = Cardinality(DOMAIN counted.map)
                   /\ seqRet' = counted.map
            /\ \E elapsed \in Durations : seqExecutionTime' = elapsed
            /\ UNCHANGED console
    /\ mpc' = ReturnPoint
    /\ UNCHANGED seqFrame

(* ---------------- a client of one WordCounterParallel ----------------- *)
\* The client calls countWords and countWordsFromFile on one counter, in
\* any order, and keeps what the call before the current one returned.
Completed == [op |-> cur.op, arg |-> cur.arg, map |-> ret, total |-> totalWords]

Init ==
    /\ prog = "client"
    /\ text \in Texts
    /\ \E mode \in SyncMethods : Constructed(mode)
    /\ SeqConstructed
    /\ numThreads = 0
    /\ Quiet
    /\ NoMain
    /\ mpc = "idle"

ClientCountWords ==
    /\ mpc = "idle"
    /\ countWords(text)
    /\ last' = Completed
    /\ UNCHANGED ref

ClientCountWordsFromFile ==
    /\ mpc = "idle"
    /\ \E filename \in InPaths : countWordsFromFile(filename)
    /\ last' = Completed
    /\ UNCHANGED ref

ClientBuilding == Building /\ UNCHANGED histVars

ClientReturn == CallReturn /\ UNCHANGED histVars

Next ==
    \/ ClientCountWords
    \/ ClientCountWordsFromFile
    \/ ClientBuilding
    \/ ClientReturn

Spec == Init /\ [][Next]_vars

(* -------------- a client that compares the strategies ----------------- *)
\* The client counts the same text with counters of any strategies, one
\* fresh counter per run, and keeps the first result.
InitStrategies ==
    /\ prog = "strategies"
    /\ text \in Texts
    /\ \E mode \in SyncMethods : Constructed(mode)
    /\ SeqConstructed
    /\ numThreads = 0
    /\ Quiet
    /\ NoMain
    /\ mpc = "fresh"

\* WordCounterParallel counter(mode): a new counter replaces the old one
NewCounter ==
    /\ mpc = "idle"
    /\ \E mode \in SyncMethods :
        /\ syncMethod' = mode
        /\ executionTime' = 0
        /\ totalWords' = 0
        /\ uniqueWords' = 0
    /\ cur' = NoCall
    /\ ret' = EmptyMap
    /\ mpc' = "fresh"
    /\ UNCHANGED <<buildVars, console, parFrame, histVars>>

StrategiesCountWords ==
    /\ mpc = "fresh"
    /\ countWords(text)
    /\ UNCHANGED histVars

StrategiesBuilding == Building /\ UNCHANGED histVars

StrategiesReturn ==
    /\ CallReturn
    /\ ref' = IF ref = NoRef
              THEN [mode |-> syncMethod, map |-> wordFreq, total |-> totalWords]
              ELSE ref
    /\ UNCHANGED last

NextStrategies ==
    \/ NewCounter
    \/ StrategiesCountWords
    \/ StrategiesBuilding
    \/ StrategiesReturn

SpecStrategies == InitStrategies /\ [][NextStrategies]_vars

(* ------------- a client of both counters (the baseline) --------------- *)
\* The client runs the sequential counter and a parallel counter on the
\* same text.
InitBaseline ==
    /\ prog = "baseline"
    /\ text \in Texts
    /\ \E mode \in SyncMethods : Constructed(mode)
    /\ SeqConstructed
    /\ numThreads = 0
    /\ Quiet
    /\ NoMain
    /\ mpc = "idle"

BaselineSeqCountWords ==
    /\ mpc = "idle"
    /\ seqCountWords(text)
    /\ UNCHANGED histVars

BaselineSeqCountWordsFromFile ==
    /\ mpc = "idle"
    /\ \E filename \in InPaths : seqCountWordsFromFile(filename)
    /\ UNCHANGED histVars

BaselineCountWords ==
    /\ mpc = "idle"
    /\ countWords(text)
    /\ UNCHANGED histVars

BaselineBuilding == Building /\ UNCHANGED histVars

BaselineReturn == CallReturn /\ UNCHANGED histVars

NextBaseline ==
    \/ BaselineSeqCountWords
    \/ BaselineSeqCountWordsFromFile
    \/ BaselineCountWords
    \/ BaselineBuilding
    \/ BaselineReturn

SpecBaseline == InitBaseline /\ [][NextBaseline]_vars

(* --------------------------- main programs ---------------------------- *)
Digits == <<"0", "1", "2", "3", "4", "5", "6", "7", "8", "9">>

IsDigit(c) == \E d \in 1 .. 10 : Digits[d] = c

DigitValue(c) == (CHOOSE d \in 1 .. 10 : Digits[d] = c) - 1

RECURSIVE SkipSpace(_)
SkipSpace(s) == IF s # <<>> /\ isspace(Head(s)) THEN SkipSpace(Tail(s)) ELSE s

\* the value of the leading digits of s after acc
RECURSIVE LeadingDigits(_, _)
LeadingDigits(s, acc) ==
    IF s # <<>> /\ IsDigit(Head(s))
    THEN LeadingDigits(Tail(s), 10 * acc + DigitValue(Head(s)))
    ELSE acc

\* std::stoi: blanks, an optional sign, then digits up to the first other
\* character; it throws when there is no digit or the value is no int
stoi(str) ==
    LET s == SkipSpace(str)
        signed == s # <<>> /\ Head(s) \in {"-", "+"}
        body == IF signed THEN Tail(s) ELSE s
        magnitude == LeadingDigits(body, 0)
    IN  IF body = <<>> \/ ~IsDigit(Head(body)) \/ magnitude > IntMax
        THEN [thrown |-> TRUE, value |-> 0]
        ELSE [thrown |-> FALSE,
              value |-> IF signed /\ Head(s) = "-" THEN 0 - magnitude
                        ELSE magnitude]

\* parseSyncMethod, parallel/main.cpp lines 11-16
parseSyncMethod(str) ==
    IF str = "critical" THEN "Critical"
    ELSE IF str = "atomic" THEN "Atomic"
    ELSE "Reduction"

\* the command lines tried: argv[1 .. argc-1]
TopNArgs == {<<"1">>, <<"x">>}

ThreadArgs == {<<Digits[n + 1]>> : n \in 0 .. MaxWorkers}

ModeArgs == {"critical", "atomic", "reduction", "fast"}

ParArgVectors ==
    {<<>>}
    \cup {<<i>> : i \in InPaths}
    \cup {<<i, o>> : i \in InPaths, o \in OutPaths}
    \cup {<<i, o, n>> : i \in InPaths, o \in OutPaths, n \in TopNArgs}
    \cup {<<i, o, n, t>> :
            i \in InPaths, o \in OutPaths, n \in TopNArgs, t \in ThreadArgs}
    \cup {<<i, o, n, t, m>> :
            i \in InPaths, o \in OutPaths, n \in TopNArgs, t \in ThreadArgs,
            m \in ModeArgs}

SeqArgVectors == {a \in ParArgVectors : Len(a) <= 3}

InitMain ==
    /\ prog \in Mains
    /\ text \in Texts
    /\ argv \in IF prog = "par_main" THEN ParArgVectors ELSE SeqArgVectors
    /\ Constructed("Reduction")
    /\ SeqConstructed
    /\ numThreads = 0
    /\ Quiet
    /\ inputFile = ""
    /\ outputFile = ""
    /\ topN = 0
    /\ exitCode = Running
    /\ console = <<>>
    /\ mpc = "main"

argc == Len(argv) + 1

mainFrame == <<envVars, normVars, castVars,
               buildVars, cur, ret, histVars, seqVars, argv,
               outFile,
               topVars>>

\* main up to the call of countWordsFromFile: parallel/main.cpp lines
\* 19-50, sequential/main.cpp lines 11-33
MainStart ==
    /\ mpc = "main"
    /\ IF argc < 2
       THEN /\ console' = console \o <<"Usage">>
            /\ exitCode' = 1
            /\ mpc' = "exited"
            /\ UNCHANGED <<inputFile, outputFile, topN, numThreads, counterVars>>
       ELSE LET top == IF argc > 3 THEN stoi(argv[3])
                       ELSE [thrown |-> FALSE, value |-> 100]
                threads == IF prog = "par_main" /\ argc > 4 THEN stoi(argv[4])
                           ELSE [thrown |-> FALSE, value |-> 0]
                syncModeStr == IF argc > 5 THEN argv[5] ELSE "reduction"
            IN  IF top.thrown \/ threads.thrown
                THEN /\ exitCode' = Aborted
                     /\ mpc' = "exited"
                     /\ UNCHANGED <<inputFile, outputFile, topN, numThreads,
                                    counterVars, console>>
                ELSE /\ inputFile' = argv[1]
                     /\ outputFile' = IF argc > 2 THEN argv[2]
                                      ELSE IF prog = "par_main"
                                           THEN "results/parallel/output.txt"
                                           ELSE "results/sequential/output.txt"
                     /\ topN' = top.value
                     /\ numThreads' = IF threads.value > 0 THEN threads.value
                                      ELSE numThreads
                     /\ syncMethod' = parseSyncMethod(syncModeStr)
                     /\ executionTime' = 0
                     /\ totalWords' = 0
                     /\ uniqueWords' = 0
                     /\ console' = console \o <<"Processing file...">>
                     /\ exitCode' = exitCode
                     /\ mpc' = "main_call"
    /\ UNCHANGED mainFrame

\* parallel/main.cpp line 51
ParMainCount ==
    /\ mpc = "main_call"
    /\ prog = "par_main"
    /\ countWordsFromFile(inputFile)
    /\ UNCHANGED histVars

MainBuilding == Building /\ UNCHANGED histVars

MainReturn == CallReturn /\ UNCHANGED histVars

\* sequential/main.cpp line 34
SeqMainCount ==
    /\ mpc = "main_call"
    /\ prog = "seq_main"
    /\ seqCountWordsFromFile(inputFile)
    /\ UNCHANGED histVars

\* the map main holds in its variable wordFreq
MainWordFreq == IF prog = "par_main" THEN ret ELSE seqRet

\* lines 53-78 / 36-61: leave with 1 on an empty map, else print the
\* statistics and the ten most frequent words
MainCheck ==
    /\ mpc = "main_check"
    /\ IF MapEmpty(MainWordFreq)
       THEN /\ console' = console \o <<"Error: No words processed!">>
            /\ exitCode' = 1
            /\ mpc' = "exited"
            /\ UNCHANGED topVars
       ELSE /\ topArg' = [map |-> MainWordFreq, n |-> 10]
            /\ topWords' \in IF prog = "par_main"
                             THEN getTopWords(MainWordFreq, 10)
                             ELSE seqGetTopWords(MainWordFreq, 10)
            /\ console' = console \o <<"Statistics", "Saving results...">>
            /\ exitCode' = exitCode
            /\ mpc' = "main_save"
    /\ UNCHANGED <<envVars, normVars, castVars,
                   counterVars, numThreads, buildVars, cur,
                   ret,
                   histVars, seqVars, argv, inputFile, outputFile, topN,
                   outFile>>

\* the report is written as soon as the team runs
MainSaveEarly ==
    /\ mpc \in {"main_save", "region"}
    /\ IF prog = "par_main"
       THEN saveResults(MainWordFreq, outputFile, topN)
       ELSE seqSaveResults(MainWordFreq, outputFile, topN)
    /\ mpc' = "main_end"
    /\ UNCHANGED <<envVars, normVars, castVars,
                   numThreads, buildVars, cur, ret, histVars,
                   argv, inputFile, outputFile, topN, exitCode, topVars>>

\* lines 82 / 65: counter.saveResults(wordFreq, outputFile, topN)
MainSave ==
    /\ mpc = "main_save"
    /\ IF prog = "par_main"
       THEN saveResults(MainWordFreq, outputFile, topN)
       ELSE seqSaveResults(MainWordFreq, outputFile, topN)
    /\ mpc' = "main_end"
    /\ UNCHANGED <<envVars, normVars, castVars,
                   numThreads, buildVars, cur, ret, histVars,
                   argv,
                   inputFile, outputFile, topN, exitCode, topVars>>

\* lines 84-87 / 67-70
MainExit ==
    /\ mpc = "main_end"
    /\ console' = console \o <<"Processing complete!">>
    /\ exitCode' = 0
    /\ mpc' = "exited"
    /\ UNCHANGED <<envVars, normVars, castVars,
                   counterVars, numThreads, buildVars, cur,
                   ret,
                   histVars, seqVars, argv, inputFile, outputFile, topN,
                   outFile, topVars>>

NextMain ==
    \/ MainStart
    \/ ParMainCount
    \/ MainBuilding
    \/ MainReturn
    \/ SeqMainCount
    \/ MainCheck
    \/ MainSave
    \/ MainExit

SpecMain == InitMain /\ [][NextMain]_vars

(* ----------------------- getTopWords on any map ----------------------- *)
\* most keys, largest count and largest n of the maps getTopWords is given
MaxKeys == 3
MaxCount == 2
MaxTopN == 4

KeyNames == <<"a", "b", "c", "d", "e", "f">>

TopKeys == {<<KeyNames[i]>> : i \in 1 .. MaxKeys}

TopMaps == UNION {[keys -> 1 .. MaxCount] : keys \in SUBSET TopKeys}

InitTop ==
    /\ prog \in {"parallel", "sequential"}
    /\ text = <<>>
    /\ Constructed("Reduction")
    /\ SeqConstructed
    /\ numThreads = 0
    /\ NoBuild
    /\ cur = NoCall
    /\ ret = EmptyMap
    /\ last = NoResult
    /\ ref = NoRef
    /\ seqCur = NoCall
    /\ seqRet = EmptyMap
    /\ outFile = NoFile
    /\ NoMain
    /\ NoToken
    /\ NoCast
    /\ topArg \in [map : TopMaps, n : (0 - 1) .. MaxTopN]
    /\ topWords = <<>>
    /\ mpc = "top"

topFrame == <<envVars, normVars, castVars,
              counterVars, numThreads, buildVars, cur, ret,
              histVars,
              seqVars, mainVars, outFile, topArg>>

TopParallel ==
    /\ mpc = "top"
    /\ prog = "parallel"
    /\ topWords' \in getTopWords(topArg.map, topArg.n)
    /\ mpc' = "top_done"
    /\ UNCHANGED topFrame

TopSequential ==
    /\ mpc = "top"
    /\ prog = "sequential"
    /\ topWords' \in seqGetTopWords(topArg.map, topArg.n)
    /\ mpc' = "top_done"
    /\ UNCHANGED topFrame

NextTop ==
    \/ TopParallel
    \/ TopSequential

SpecTop == InitTop /\ [][NextTop]_vars

(* ----------------------- normalizeWord on any token ------------------- *)
\* longest token given to normalizeWord
MaxTokenLen == 4

\* characters of the tokens: letters of both cases, a digit, punctuation
TokenChars == {"a", "A", "B", "1", ","}

Tokens == SeqsUpTo(TokenChars, MaxTokenLen)

InitNormalize ==
    /\ prog = "normalize"
    /\ text = <<>>
    /\ Constructed("Reduction")
    /\ SeqConstructed
    /\ numThreads = 0
    /\ NoBuild
    /\ cur = NoCall
    /\ ret = EmptyMap
    /\ last = NoResult
    /\ ref = NoRef
    /\ seqCur = NoCall
    /\ seqRet = EmptyMap
    /\ outFile = NoFile
    /\ NoMain
    /\ topArg = NoTop
    /\ topWords = <<>>
    /\ NoCast
    /\ token \in Tokens
    /\ parNormalized = NotCalled
    /\ seqNormalized = NotCalled
    /\ mpc = "normalize"

normFrame == <<envVars, castVars,
               counterVars, numThreads, buildVars, mpc, cur, ret,
               histVars, seqVars, mainVars, outFile, topVars, token>>

NormalizeParallel ==
    /\ mpc = "normalize"
    /\ parNormalized = NotCalled
    /\ parNormalized' = normalizeWord(token)
    /\ UNCHANGED <<seqNormalized, normFrame>>

NormalizeSequential ==
    /\ mpc = "normalize"
    /\ seqNormalized = NotCalled
    /\ seqNormalized' = seqNormalizeWord(token)
    /\ UNCHANGED <<parNormalized, normFrame>>

NextNormalize ==
    \/ NormalizeParallel
    \/ NormalizeSequential

SpecNormalize == InitNormalize /\ [][NextNormalize]_vars

(* ------------------- one call under fair scheduling ------------------- *)
\* One countWordsFromFile on a new counter, the file holding letters, digits
\* and blanks.  The operating system runs every thread that can take a step
\* again and again: the caller and each thread of the team are weakly fair.
FairTexts == SeqsUpTo({"a", "1", " "}, MaxTextLen)

InitFair ==
    /\ prog = "fair"
    /\ text \in FairTexts
    /\ \E mode \in SyncMethods : Constructed(mode)
    /\ SeqConstructed
    /\ numThreads = 0
    /\ Quiet
    /\ NoMain
    /\ mpc = "fresh"

FairCountWordsFromFile ==
    /\ mpc = "fresh"
    /\ \E filename \in InPaths : countWordsFromFile(filename)
    /\ UNCHANGED histVars

FairBuilding == Building /\ UNCHANGED histVars

FairReturn == CallReturn /\ UNCHANGED histVars

NextFair ==
    \/ FairCountWordsFromFile
    \/ FairBuilding
    \/ FairReturn

\* the steps of the calling thread
FairCaller ==
    /\ \/ buildWordMapFromList
       \/ RegionEnd
       \/ CallReturn
    /\ UNCHANGED histVars

\* the steps of thread w of the team
FairWorker(w) ==
    /\ w \in Workers
    /\ Worker(w)
    /\ UNCHANGED histVars

Fairness ==
    /\ WF_vars(FairCaller)
    /\ \A w \in 1 .. MaxWorkers : WF_vars(FairWorker(w))

SpecFair == InitFair /\ [][NextFair]_vars /\ Fairness

(* ------------------- the loop shared out over a team ------------------ *)
\* One countWords on a new counter after omp_set_num_threads, the text
\* holding up to MaxTokens words, all different: "a aa aaa ...".
MaxTokens == 4
MaxTeam == 3

\* the word of n letters
WordOfLength(n) == [i \in 1 .. n |-> "a"]

\* the text of the first k words, one blank between two words
RECURSIVE TextOfWords(_)
TextOfWords(k) ==
    IF k = 0 THEN <<>>
    ELSE IF k = 1 THEN WordOfLength(1)
    ELSE TextOfWords(k - 1) \o <<" ">> \o WordOfLength(k)

InitPartition ==
    /\ prog = "partition"
    /\ text \in {TextOfWords(k) : k \in 0 .. MaxTokens}
    /\ \E mode \in SyncMethods : Constructed(mode)
    /\ SeqConstructed
    /\ numThreads \in 1 .. MaxTeam
    /\ Quiet
    /\ NoMain
    /\ mpc = "fresh"

PartitionCountWords ==
    /\ mpc = "fresh"
    /\ countWords(text)
    /\ UNCHANGED histVars

PartitionBuilding == Building /\ UNCHANGED histVars

PartitionReturn == CallReturn /\ UNCHANGED histVars

NextPartition ==
    \/ PartitionCountWords
    \/ PartitionBuilding
    \/ PartitionReturn

SpecPartition == InitPartition /\ [][NextPartition]_vars

(* --------------- the loop bound for any number of raw words ----------- *)
\* The bound of the work-shared loop for lists of any size_t length: the
\* parts of the size are taken around the ends of their ranges.
MaxSizeHigh == 1

PartSamples == {0, 1, 2, Half \div 2 - 1, Half \div 2, Half - 1}

Sizes == [high : 0 .. MaxSizeHigh, mid : PartSamples, low : PartSamples]

InitCast ==
    /\ prog = "cast"
    /\ text = <<>>
    /\ \E mode \in SyncMethods : Constructed(mode)
    /\ SeqConstructed
    /\ numThreads = 0
    /\ NoBuild
    /\ NoToken
    /\ cur = NoCall
    /\ ret = EmptyMap
    /\ last = NoResult
    /\ ref = NoRef
    /\ seqCur = NoCall
    /\ seqRet = EmptyMap
    /\ outFile = NoFile
    /\ NoMain
    /\ topArg = NoTop
    /\ topWords = <<>>
    /\ listSize \in Sizes
    /\ loopBound = 0
    /\ tripCount = 0
    /\ mpc = "cast"

\* lines 150 / 174: the bound of the loop is evaluated and the loop runs
LoopBound ==
    /\ mpc = "cast"
    /\ loopBound' = StaticCastSize(listSize)
    /\ tripCount' = TripCount(loopBound')
    /\ mpc' = "cast_done"
    /\ UNCHANGED <<envVars, normVars, listSize, counterVars, numThreads,
                   buildVars, cur, ret, histVars, seqVars, mainVars, outFile,
                   topVars>>

NextCast == LoopBound

SpecCast == InitCast /\ [][NextCast]_vars

(* ------------------ a client that writes the report ------------------ *)
\* The client makes counting calls on one counter, the parallel or the
\* sequential one, and at any time between two calls has the counter write
\* the report of the map its last call returned.
MaxReportN == 1

InitReport ==
    /\ prog \in {"report", "seq_report"}
    /\ text \in Texts
    /\ \E mode \in SyncMethods : Constructed(mode)
    /\ SeqConstructed
    /\ numThreads = 0
    /\ Quiet
    /\ NoMain
    /\ mpc = "idle"

\* the client is between two calls
Between == mpc \in {"idle", "saved"}

ReportCountWords ==
    /\ prog = "report"
    /\ Between
    /\ countWords(text)
    /\ UNCHANGED histVars

ReportCountWordsFromFile ==
    /\ prog = "report"
    /\ Between
    /\ \E filename \in InPaths : countWordsFromFile(filename)
    /\ UNCHANGED histVars

ReportBuilding == Building /\ UNCHANGED histVars

ReportReturn == CallReturn /\ UNCHANGED histVars

ReportSeqCountWords ==
    /\ prog = "seq_report"
    /\ Between
    /\ seqCountWords(text)
    /\ UNCHANGED histVars

ReportSeqCountWordsFromFile ==
    /\ prog = "seq_report"
    /\ Between
    /\ \E filename \in InPaths : seqCountWordsFromFile(filename)
    /\ UNCHANGED histVars

reportFrame == <<envVars, normVars, castVars, numThreads, buildVars, cur, ret,
                 histVars, argv, inputFile, outputFile, topN, exitCode,
                 topVars>>

\* counter.saveResults(wordFreq, "out", n) with the map of the last call
ReportSave ==
    /\ prog = "report"
    /\ mpc = "idle"
    /\ \E n \in 0 .. MaxReportN : saveResults(ret, "out", n)
    /\ mpc' = "saved"
    /\ UNCHANGED reportFrame

ReportSeqSave ==
    /\ prog = "seq_report"
    /\ mpc = "idle"
    /\ \E n \in 0 .. MaxReportN : seqSaveResults(seqRet, "out", n)
    /\ mpc' = "saved"
    /\ UNCHANGED reportFrame

NextReport ==
    \/ ReportCountWords
    \/ ReportCountWordsFromFile
    \/ ReportBuilding
    \/ ReportReturn
    \/ ReportSeqCountWords
    \/ ReportSeqCountWordsFromFile
    \/ ReportSave
    \/ ReportSeqSave

SpecReport == InitReport /\ [][NextReport]_vars

(* ============================ properties ============================= *)
Range(s) == {s[i] : i \in DOMAIN s}

\* the number of raw words whose normalized form is not empty
CountedWords(words) ==
    Cardinality({i \in DOMAIN words : normalizeWord(words[i]) # <<>>})

\* C1: whatever the strategy, the team size and the interleaving, every run
\* of buildWordMapFromList on the text ends with the frequency map and the
\* totalWords of the first run made on it.
C1_StrategiesAgree ==
    (mpc = "built" /\ ref # NoRef)
        => (wordFreq = ref.map /\ totalWords = ref.total)

\* a run of one strategy has ended after a run of another, two words counted
C1_Witness ==
    /\ mpc = "built"
    /\ ref.mode \notin {"none", syncMethod}
    /\ totalWords >= 2

\* C2: after countWords on the same text, the parallel counter and the
\* sequential counter hold the same map and the same totalWords.
C2_ParallelEqualsSequential ==
    (mpc = "idle" /\ cur.op = "countWords" /\ seqCur.op = "countWords")
        => (ret = seqRet /\ totalWords = seqTotalWords)

C2_Witness ==
    /\ mpc = "idle"
    /\ cur.op = "countWords"
    /\ seqCur.op = "countWords"
    /\ seqTotalWords >= 2
    /\ ret # EmptyMap

\* C3: when buildWordMapFromList has finished, totalWords is the sum of
\* the counts of the map and the number of raw words that normalize to a
\* non-empty word.
C3_TotalIsSumOfCounts ==
    mpc = "built"
        => (totalWords = SumCounts(wordFreq)
            /\ totalWords = CountedWords(rawWords))

C3_Witness ==
    /\ mpc = "built"
    /\ totalWords >= 2
    /\ syncMethod = "Critical"

\* C4: countWordsFromFile called twice in a row on one counter and one
\* file returns the same map and leaves the same totalWords both times.
C4_Idempotent ==
    (mpc = "idle"
     /\ cur.op = "countWordsFromFile"
     /\ last.op = "countWordsFromFile"
     /\ last.arg = cur.arg)
        => (ret = last.map /\ totalWords = last.total)

C4_Witness ==
    /\ mpc = "idle"
    /\ cur = [op |-> "countWordsFromFile", arg |-> "input"]
    /\ last.op = "countWordsFromFile"
    /\ last.arg = "input"
    /\ last.total >= 2

\* C5: after any call returns, getTotalWords() is the sum of the counts of
\* the map the call returned and getUniqueWords() its number of keys.
C5_StatisticsOfReturnedMap ==
    (mpc = "idle" /\ cur.op # "none")
        => (totalWords = SumCounts(ret)
            /\ uniqueWords = Cardinality(DOMAIN ret))

\* C6: a countWordsFromFile whose file cannot be opened starts no thread,
\* returns an empty map to its caller and leaves an elapsed time of 0.
C6_UnopenableInput ==
    (cur.op = "countWordsFromFile" /\ ~CanOpen(cur.arg))
        => (mpc = ReturnPoint
            /\ team = 0
            /\ ret = EmptyMap
            /\ executionTime = 0)

\* the failed call follows a call that counted words
C6_Witness ==
    /\ cur.op = "countWordsFromFile"
    /\ ~CanOpen(cur.arg)
    /\ last.total >= 1
    /\ uniqueWords >= 1

\* the counting call of main was made
MainCounted == IF prog = "par_main" THEN cur.op # "none" ELSE seqCur.op # "none"

\* saveResults was called
SaveCalled ==
    \/ "Results saved to" \in Range(console)
    \/ "Error: Cannot create output file" \in Range(console)

\* C7: main exits with 0 exactly when it counted a non-empty table, with 1
\* when no input file is given, and with 1 when the table is empty, be it
\* for an unreadable input or for an input without a letter: both leave by
\* the same message, without calling saveResults.
C7_ExitCodes ==
    mpc = "exited"
        => /\ exitCode # Running
           /\ (exitCode = 0) <=> (MainCounted /\ MainWordFreq # EmptyMap)
           /\ argc < 2 => exitCode = 1
           /\ (MainCounted /\ MainWordFreq = EmptyMap)
                 => /\ exitCode = 1
                    /\ console[Len(console)] = "Error: No words processed!"
                    /\ ~SaveCalled
                    /\ outFile = NoFile

\* a readable input without any letter
C7_Witness ==
    /\ mpc = "exited"
    /\ exitCode = 1
    /\ inputFile = "input"
    /\ Len(text) >= 2
    /\ MainCounted

\* C8: when the output file cannot be created, saveResults leaves the
\* file system and the statistics as they are and returns, and main then
\* exits with 0.
C8_UnwritableOutput ==
    /\ [][(mpc = "main_save" /\ ~CanCreate(outputFile))
            => (/\ outFile' = outFile
                /\ counterVars' = counterVars
                /\ seqVars' = seqVars
                /\ exitCode' = Running
                /\ mpc' = "main_end")]_vars
    /\ []((~CanCreate(outputFile) /\ mpc = "exited" /\ SaveCalled)
            => (exitCode = 0 /\ outFile = NoFile))

C8_Witness ==
    /\ mpc = "exited"
    /\ ~CanCreate(outputFile)
    /\ SaveCalled
    /\ prog = "par_main"
    /\ executionTime = 1

\* C9: getTopWords returns entries of the map, each at most once, in
\* non-increasing order of count; n of them when 0 < n < size and all of
\* them otherwise; no entry left out has a count above a returned one.
C9_TopWords ==
    mpc = "top_done"
        => LET size == Cardinality(DOMAIN topArg.map)
               n == topArg.n
           IN  /\ Range(topWords) \subseteq Entries(topArg.map)
               /\ \A i, j \in DOMAIN topWords :
                     topWords[i] = topWords[j] => i = j
               /\ \A i, j \in DOMAIN topWords :
                     i < j => topWords[i][2] >= topWords[j][2]
               /\ Len(topWords) = IF 0 < n /\ n < size THEN n ELSE size
               /\ \A e \in Entries(topArg.map) \ Range(topWords) :
                     \A i \in DOMAIN topWords : e[2] <= topWords[i][2]

\* a truncated result with counts that differ and an entry left out
C9_Witness ==
    /\ mpc = "top_done"
    /\ Cardinality(DOMAIN topArg.map) = 3
    /\ Len(topWords) = 2
    /\ topWords[1][2] > topWords[2][2]

\* thread w steps over a raw word whose normalized form is empty
DropsWord(w) ==
    /\ team' = team
    /\ wpc[w] = "for"
    /\ idx[w] < chunk[w][2]
    /\ normalizeWord(rawWords[idx[w] + 1]) = <<>>
    /\ idx'[w] # idx[w]

\* C10: a raw word whose normalized form is empty changes no local map,
\* not the global map and no running total, and no map ever holds the
\* empty word.
C10_EmptyWordsDropped ==
    /\ [][\A w \in Workers :
            DropsWord(w) => /\ localMap' = localMap
                            /\ wordFreq' = wordFreq
                            /\ totalWordCount' = totalWordCount
                            /\ privTotal' = privTotal
                            /\ totalWords' = totalWords]_vars
    /\ [](/\ <<>> \notin DOMAIN wordFreq
          /\ <<>> \notin DOMAIN ret
          /\ \A w \in Workers : <<>> \notin DOMAIN localMap[w])

\* a thread has stepped over such a word after counting another
C10_Witness ==
    \E w \in Workers :
        /\ wpc[w] = "for"
        /\ idx[w] > chunk[w][1]
        /\ normalizeWord(rawWords[idx[w]]) = <<>>
        /\ localMap[w] # EmptyMap

\* the letters and their lowercase forms in the "C" locale
LowercaseOf ==
    ("a" :> "a") @@ ("b" :> "b") @@ ("A" :> "a") @@ ("B" :> "b")

IsLetter(c) == c \in DOMAIN LowercaseOf

\* the letters of word, in order, each in lowercase
LettersLowered(word) ==
    LET letters == SelectSeq(word, IsLetter)
    IN  [i \in 1 .. Len(letters) |-> LowercaseOf[letters[i]]]

\* C11: normalizeWord returns the letters of the token, in their order,
\* each in lowercase, hence the empty string for a token without letters;
\* WordCounterParallel and WordCounterSequential return the same string;
\* "Ba," gives "ba", "11" and "" give "".
C11_NormalizeWord ==
    /\ parNormalized # NotCalled
          => /\ parNormalized = LettersLowered(token)
             /\ (\A i \in 1 .. Len(token) : ~IsLetter(token[i]))
                    => parNormalized = <<>>
             /\ token = <<"B", "a", ",">> => parNormalized = <<"b", "a">>
             /\ token \in {<<"1", "1">>, <<>>} => parNormalized = <<>>
    /\ seqNormalized # NotCalled => seqNormalized = LettersLowered(token)
    /\ (parNormalized # NotCalled /\ seqNormalized # NotCalled)
          => parNormalized = seqNormalized

\* both counters have normalized a token of mixed case with punctuation
C11_Witness ==
    /\ token = <<"B", ",", "a", "1">>
    /\ parNormalized = <<"b", "a">>
    /\ seqNormalized = <<"b", "a">>

\* thread w is at one of the positions pcs
At(w, pcs) == w \in Workers /\ wpc[w] \in pcs

\* C12: under fair scheduling a counting call that has entered
\* buildWordMapFromList returns; every thread of the team ends its loop,
\* gets the merge lock, merges and reaches the end of the region; as long
\* as the call has not returned some thread can take a step.
C12_RunsToCompletion ==
    /\ (mpc \in {"build", "region", "built"}) ~> (mpc = "idle")
    /\ \A w \in 1 .. MaxWorkers :
          /\ At(w, {"for", "critical_wait", "critical_in", "barrier",
                    "merge_wait"})
                ~> At(w, {"merging"})
          /\ At(w, {"merging"}) ~> At(w, {"end"})
    /\ [](mpc \in {"build", "region", "built"} => ENABLED NextFair)

\* a call under the critical strategy has returned after two increments
C12_Witness ==
    /\ prog = "fair"
    /\ mpc = "idle"
    /\ syncMethod = "Critical"
    /\ cur.op = "countWordsFromFile"
    /\ totalWords = 2

\* the threads inside the merge body
Merging == {w \in Workers : wpc[w] = "merging"}

\* a step of a thread inside its loop over the raw words
LoopStep == idx' # idx \/ localMap' # localMap

\* C13: under every strategy at most one thread is inside the merge body,
\* and it holds the lock; while the region runs, wordFreq changes only by a
\* step of the thread inside the merge body, and never by a step of a loop
\* over the raw words.
C13_MergeExclusive ==
    /\ [](/\ Cardinality(Merging) <= 1
          /\ \A w \in Merging : critical = w)
    /\ [][(team > 0 /\ team' > 0 /\ wordFreq' # wordFreq)
            => /\ \E w \in Merging :
                    /\ critical = w
                    /\ todo'[w] # todo[w]
                    /\ \A v \in Workers \ {w} : /\ wpc'[v] = wpc[v]
                                                 /\ todo'[v] = todo[v]
               /\ ~LoopStep]_vars
    /\ [][(team > 0 /\ team' > 0 /\ LoopStep)
            => wordFreq' = wordFreq]_vars

\* one thread merges a word while another waits for the lock
C13_Witness ==
    \E w, v \in Workers :
        /\ wpc[w] = "merging"
        /\ wpc[v] = "merge_wait"
        /\ wordFreq # EmptyMap

\* the count of word k in map m, 0 when m does not hold it
CountOf(m, k) == IF k \in DOMAIN m THEN m[k] ELSE 0

\* what thread w has added to wordFreq for word k so far
MergedShare(w, k) ==
    IF wpc[w] = "end" \/ (wpc[w] = "merging" /\ k \notin todo[w])
    THEN CountOf(localMap[w], k)
    ELSE 0

RECURSIVE SumShares(_, _)
SumShares(k, n) ==
    IF n = 0 THEN 0 ELSE MergedShare(n, k) + SumShares(k, n - 1)

RECURSIVE SumLocal(_, _)
SumLocal(k, n) ==
    IF n = 0 THEN 0 ELSE CountOf(localMap[n], k) + SumLocal(k, n - 1)

LocalWords == UNION {DOMAIN localMap[w] : w \in Workers}

AllMerged == team > 0 /\ \A w \in Workers : wpc[w] = "end"

\* C14: every thread goes through the merge body once, from the wait for
\* the lock to the end of the region, its local map unchanged; at every
\* moment the count of a word in wordFreq is the sum of what the threads
\* have merged so far, and once all have merged it is the sum of the
\* word's counts over all local maps.
C14_MergedOnce ==
    /\ [][team > 0 /\ team' > 0
            => \A w \in Workers :
                 /\ (wpc[w] # "merging" /\ wpc'[w] = "merging")
                        => wpc[w] = "merge_wait"
                 /\ wpc[w] = "end" => wpc'[w] = "end"
                 /\ wpc[w] \in {"merge_wait", "merging", "end"}
                        => localMap'[w] = localMap[w]]_vars
    /\ [](team > 0
            => /\ DOMAIN wordFreq \subseteq LocalWords
               /\ \A k \in LocalWords :
                     CountOf(wordFreq, k) = SumShares(k, team))
    /\ [](AllMerged
            => /\ DOMAIN wordFreq = LocalWords
               /\ \A k \in LocalWords : wordFreq[k] = SumLocal(k, team))

\* all threads have merged, two of them the same word
C14_Witness ==
    /\ AllMerged
    /\ \E w, v \in Workers, k \in DOMAIN wordFreq :
          /\ w # v
          /\ k \in DOMAIN localMap[w] \cap DOMAIN localMap[v]
          /\ wordFreq[k] = 2

\* the indices of the range of thread w
IndexRange(w) ==
    {i \in 0 .. Len(rawWords) - 1 : chunk[w][1] <= i /\ i < chunk[w][2]}

\* the indices thread w has normalized and counted so far
Visited(w) ==
    LET done == IF wpc[w] \in {"critical_wait", "critical_in"}
                THEN idx[w] + 1
                ELSE idx[w]
    IN  {i \in 0 .. Len(rawWords) - 1 : chunk[w][1] <= i /\ i < done}

\* the map that counts each word of the indices once
OnceEach(indices) ==
    [k \in {normalizeWord(rawWords[i + 1]) : i \in indices} |-> 1]

\* C15: the ranges of the threads are intervals of [0, N), no two share an
\* index and every index is in one; a thread counts the indices of its own
\* range, in order, each once, has counted all of them when it leaves the
\* loop, and the merged map counts every index once.
C15_RangesPartition ==
    team > 0
        => /\ \A w \in Workers :
                 /\ 0 <= chunk[w][1]
                 /\ chunk[w][1] <= chunk[w][2]
                 /\ chunk[w][2] <= Len(rawWords)
           /\ \A w, v \in Workers :
                 w # v => IndexRange(w) \cap IndexRange(v) = {}
           /\ UNION {IndexRange(w) : w \in Workers} = 0 .. Len(rawWords) - 1
           /\ \A w \in Workers :
                 /\ Visited(w) \subseteq IndexRange(w)
                 /\ localMap[w] = OnceEach(Visited(w))
                 /\ AtOrPastBarrier(w) => Visited(w) = IndexRange(w)
           /\ AllMerged => wordFreq = OnceEach(0 .. Len(rawWords) - 1)

\* three threads have counted and merged four words
C15_Witness ==
    /\ AllMerged
    /\ team = 3
    /\ Len(rawWords) = 4
    /\ Cardinality(DOMAIN wordFreq) = 4

\* C16: with at least as many raw words as threads, no thread has an empty
\* range.
C16_NoEmptyRange ==
    (team > 0 /\ Len(rawWords) >= team)
        => \A w \in Workers : chunk[w][1] < chunk[w][2]

\* thread w is in its loop over the raw words
InLoop(w) == wpc[w] \in {"for", "critical_wait", "critical_in"}

\* thread w has left the barrier that ends the loop
PastBarrier(w) == wpc[w] \in {"merge_wait", "merging", "end"}

\* C17: under every strategy, once a thread waits for the merge lock or is
\* in or past the merge body, no thread of the team is still in its loop:
\* each has counted its whole range.
C17_BarrierBeforeMerge ==
    (team > 0 /\ \E w \in Workers : PastBarrier(w))
        => \A v \in Workers : ~InLoop(v) /\ idx[v] = chunk[v][2]

\* a thread merges while another, its loop done, has not yet left the
\* barrier
C17_Witness ==
    \E w, v \in Workers :
        /\ wpc[w] = "merging"
        /\ wpc[v] = "barrier"
        /\ localMap[v] # EmptyMap

\* thread w takes a step of its loop over the raw words
LoopStepOf(w) == w \in Workers /\ InLoop(w) /\ team' = team /\ idx'[w] # idx[w]

\* C18: under the reduction strategy a loop step of a thread leaves the
\* shared totalWordCount and the private totals of the others alone and
\* adds at most one to its own; totalWordCount stays 0 until every thread
\* has left its loop; totalWords is written once, by the caller at the end
\* of the region when all threads have merged, with the sum of the
\* private totals.
C18_ReductionPrivate ==
    /\ [][syncMethod = "Reduction"
            => \A w \in 1 .. MaxTeam :
                 LoopStepOf(w)
                    => /\ totalWordCount' = totalWordCount
                       /\ privTotal'[w] \in {privTotal[w], privTotal[w] + 1}
                       /\ \A v \in Workers \ {w} :
                             privTotal'[v] = privTotal[v]]_vars
    /\ []((syncMethod = "Reduction" /\ team > 0
              /\ \E w \in Workers : InLoop(w))
            => totalWordCount = 0)
    /\ [][(syncMethod = "Reduction" /\ totalWords' # totalWords)
            => /\ AllMerged
               /\ mpc = "region"
               /\ mpc' = "built"
               /\ totalWords = 0
               /\ totalWords' = totalWordCount + SumPrivate(privTotal, team)
               /\ totalWords' = CountedWords(rawWords)]_vars

\* a team of three has counted four words under the reduction strategy
C18_Witness ==
    /\ syncMethod = "Reduction"
    /\ mpc = "built"
    /\ numThreads = 3
    /\ totalWords = 4

\* C19: in the parallel program the output file changes in one step only,
\* the saveResults call of main, taken when countWordsFromFile has
\* returned and no team exists: the region has ended, the lock is free and
\* the report holds the total the merged map adds up to; while a team
\* runs no output file has been written.
C19_SaveAfterRegion ==
    /\ [][(prog = "par_main" /\ outFile' # outFile)
            => /\ mpc = "main_save"
               /\ mpc' = "main_end"
               /\ cur.op = "countWordsFromFile"
               /\ team = 0
               /\ wpc = <<>>
               /\ critical = 0
               /\ outFile = NoFile
               /\ outFile'.total = SumCounts(ret)
               /\ Len(outFile'.rows) > 0]_vars
    /\ []((/\ prog = "par_main"
           /\ team > 0 \/ mpc \in {"build", "region", "built"})
            => outFile = NoFile)

\* the report of a count that a team of two made
C19_Witness ==
    /\ prog = "par_main"
    /\ outFile # NoFile
    /\ numThreads = 2
    /\ outFile.total = 2

\* the size_t that holds the number n >= 0
SizeOfInt(n) == [high |-> 0, mid |-> n \div Half, low |-> n % Half]

\* C20: for every number N of raw words the loop of buildWordMapFromList
\* runs N times, once for each index of [0, N).
C20_EveryIndexVisited ==
    mpc = "cast_done" => SizeOfInt(tripCount) = listSize

\* the map given to the saveResults call that wrote the report
ReportedMap == IF prog = "report" THEN ret ELSE seqRet

\* C21: the header of a report saveResults has written gives as total
\* words the sum of the counts of the map it was given and as unique words
\* the number of its keys.
C21_HeaderOfGivenMap ==
    mpc = "saved"
        => /\ outFile.total = SumCounts(ReportedMap)
           /\ outFile.unique = Cardinality(DOMAIN ReportedMap)

====
